---- MODULE Spec2Model ----
(***************************************************************************)
(* The two request handlers of server/generateEmbeding:                    *)
(*   get_embeddings  (embedding_service.py, FastAPI endpoint)              *)
(*   lambda_handler  (main.py, Lambda-style handler)                       *)
(* One behaviour is one request.  The face-recognition library and the     *)
(* file system are the environment: every call made to them returns or     *)
(* raises, chosen nondeterministically.  `calls` is the trace of library   *)
(* calls of the request, in the order the handler makes them.              *)
(***************************************************************************)
EXTENDS Integers, Sequences, FiniteSets, TLC

\* ------------------------------------------------------------------ bounds
EmbDim == 2      \* length of the embedding vectors the library returns
MaxCoord == 1    \* embedding coordinates range over 0..MaxCoord
MaxDist == 1     \* verification distance and threshold range over 0..MaxDist

\* --------------------------------------------------------------- data sets
GE == "get_embeddings"
LH == "lambda_handler"

Files == {1, 2}

Embeddings == [1..EmbDim -> 0..MaxCoord]
NoEmb == <<>>

RECURSIVE SumSq(_, _)
SumSq(e, n) == IF n = 0 THEN 0 ELSE e[n] * e[n] + SumSq(e, n - 1)

\* np.linalg.norm(e) squared
NormSq(e) == SumSq(e, Len(e))

\* emb / np.linalg.norm(emb): the vector num / sqrt(den2).  numpy does not
\* raise on a zero divisor: 0/0 is NaN, here den2 = 0.
Divide(e) == [num |-> e, den2 |-> NormSq(e)]

NoVec == [num |-> NoEmb, den2 |-> 1]
IsUnitNorm(v) == v.den2 /= 0 /\ NormSq(v.num) = v.den2

\* normalize_embedding: raises on a zero norm, else emb_array / norm
NormalizeRaises(e) == NormSq(e) = 0
normalize_embedding(e) == Divide(e)

\* The payload of body['fileN']['data'].
ImageData == {"bad_base64", "not_image", "image"}

\* Mutant: only the base64 decoding is checked, not that the bytes are an image
ValidateRaises_Base64Only(d) == d = "bad_base64"

\* validate_and_process_base64_image raises when b64decode or Image.open does
ValidateRaises(d) == d \in {"bad_base64", "not_image"}

\* What `await request.json()` gives get_embeddings.
BodyKinds == {"json_error", "not_container", "missing_keys", "no_data", "files"}

GERequests ==
    { [body |-> b, data |-> d, context |-> "n/a", event |-> "n/a",
       url |-> <<"n/a", "n/a">>, do_verify |-> "n/a"] :
        b \in BodyKinds, d \in [Files -> ImageData] }

\* What the runtime hands lambda_handler.
UrlValues == {"None", "url"}
DoVerifyValues == {"absent", "true", "false", "null"}

LHRequests ==
    { [body |-> "n/a", data |-> [i \in Files |-> "n/a"], context |-> c,
       event |-> e, url |-> u, do_verify |-> dv] :
        c \in {"ok", "raises"}, e \in {"dict", "not_dict"},
        u \in [Files -> UrlValues], dv \in DoVerifyValues }

\* Mutant: event.get('do_verify') without the default True
DoVerify_NoDefault(dv) == dv = "true"

\* event.get('do_verify', True), then its truth value in `if do_verify:`
DoVerify(dv) == IF dv = "absent" THEN TRUE ELSE dv = "true"

\* Results of DeepFace.verify: a dict with verified/distance/threshold, or a
\* dict without the "verified" key (the handlers read distance and threshold
\* with .get and a default, "verified" with a subscript).
NoResult == [kind |-> "unset", verified |-> FALSE, distance |-> 0, threshold |-> 0]
VerifyResults ==
    [kind : {"dict"}, verified : BOOLEAN, distance : 0..MaxDist, threshold : 0..MaxDist]
    \cup { [kind |-> "nokey", verified |-> FALSE, distance |-> 0, threshold |-> 0] }
VerifyRaise == [kind |-> "raise", verified |-> FALSE, distance |-> 0, threshold |-> 0]
VerifyOutcomes == VerifyResults \cup {VerifyRaise}

VerifyOutcomeName(r) ==
    IF r.kind = "dict" THEN (IF r.verified THEN "true" ELSE "false") ELSE r.kind

\* Results of DeepFace.represent: raise, [] , [{"embedding": e}], or the flat
\* list of floats e that extract_embedding also accepts.
RepresentOutcomes ==
    { [kind |-> k, emb |-> NoEmb] : k \in {"raise", "empty"} }
    \cup [kind : {"dicts", "floats"}, emb : Embeddings]

\* result[0]["embedding"] raises unless the result is a non-empty list of dicts
IndexRaises(r) == r.kind /= "dicts"

\* the pre-check's test of emb_check (lines 87-92); on a flat list of floats
\* `"embedding" not in emb_check[0]` raises TypeError, caught by the same except
PrecheckRaises(r) == r.kind /= "dicts"

\* extract_embedding raises on an empty list, returns the list itself when it
\* holds floats and result[0]["embedding"] when it holds dicts
ExtractRaises(r) == r.kind \notin {"dicts", "floats"}
extract_embedding(r) == r.emb

MTCNN == "mtcnn"
RetinaFace == "retinaface"

\* Mutant: the fallback attempt left on "mtcnn"
FallbackBackend_Mtcnn == MTCNN

\* detector_backend of the fallback attempt
FallbackBackend == RetinaFace

\* Mutant: the embeddings always use "mtcnn"
EmbeddingDetector_AlwaysMtcnn(dm) == MTCNN

\* embedding_detector = detection_method if detection_method else "mtcnn"
EmbeddingDetector(dm) == IF dm /= "" THEN dm ELSE MTCNN

\* One library call: imgs is the set of images it is given ({1} or {2} for
\* represent, {1, 2} for verify); phase tells the pre-check of get_embeddings
\* ("precheck") from the verification ("verify") and the embedding step ("embed").
Call(op, backend, imgs, phase, outcome) ==
    [op |-> op, backend |-> backend, imgs |-> imgs, phase |-> phase, outcome |-> outcome]

\* ---------------------------------------------------------------- responses
\* A returned {"statusCode": ..., "body": json.dumps({...})}: keys are the keys
\* of the JSON body, distance/threshold hold the value when the key is there.
Resp(status, error, keys) ==
    [kind |-> "return", statusCode |-> status, error |-> error, keys |-> keys,
     distance |-> {}, threshold |-> {},
     embedding1 |-> NoVec, embedding2 |-> NoVec]

NoResponse == [Resp(0, "", {}) EXCEPT !.kind = "none"]
Raised == [Resp(0, "", {}) EXCEPT !.kind = "raise"]

ErrDetails == {"error", "details"}

\* -------------------------------------------------------------------- state
VARIABLES
    handler,              \* which entry point serves the request
    request,              \* the request as received
    pc,                   \* position in the handler
    calls,                \* library calls made so far, in order
    fs,                   \* temporary files on disk: "absent" | "present"
    tmp_path,             \* tmp_path1/tmp_path2 assigned (TRUE) or None (FALSE)
    verification_result,  \* last value bound to verification_result
    detection_method,     \* lambda_handler: "" (None) | "mtcnn" | "retinaface"
    emb_check,            \* get_embeddings: kind of emb1_check, emb2_check
    embedding,            \* embedding1, embedding2 as extracted
    cleanupCalls,         \* number of cleanup_tmp_images() calls
    response              \* what the handler returned (or that it raised)

vars == <<handler, request, pc, calls, fs, tmp_path, verification_result,
          detection_method, emb_check, embedding, cleanupCalls, response>>

Init ==
    /\ handler \in {GE, LH}
    /\ request \in (IF handler = GE THEN GERequests ELSE LHRequests)
    /\ pc = (IF handler = GE THEN "g_parse" ELSE "l_start")
    /\ calls = <<>>
    /\ fs = [i \in Files |-> "absent"]
    /\ tmp_path = [i \in Files |-> FALSE]
    /\ verification_result = NoResult
    /\ detection_method = ""
    /\ emb_check = [i \in Files |-> "unset"]
    /\ embedding = [i \in Files |-> NoEmb]
    /\ cleanupCalls = 0
    /\ response = NoResponse

\* -------------------------------------------------------------- file system
\* os.remove(path): raises when the file is absent or the removal fails
RemoveRaises(f, i, ok) == f[i] = "absent" \/ ~ok
Remove(f, i, ok) == IF RemoveRaises(f, i, ok) THEN f ELSE [f EXCEPT ![i] = "absent"]

\* if tmp_pathN and os.path.exists(tmp_pathN): os.remove(tmp_pathN), for 1 then 2.
\* ok[i] is whether the file system lets file i be removed.
GuardedWanted(f, p, i) == p[i] /\ f[i] = "present"
GuardedRaises(f, p, ok) ==
    \/ GuardedWanted(f, p, 1) /\ RemoveRaises(f, 1, ok[1])
    \/ GuardedWanted(f, p, 2) /\ RemoveRaises(f, 2, ok[2])
GuardedRemove(f, p, ok) ==
    LET f1 == IF GuardedWanted(f, p, 1) THEN Remove(f, 1, ok[1]) ELSE f
    IN  IF GuardedWanted(f, p, 1) /\ RemoveRaises(f, 1, ok[1]) THEN f1
        ELSE IF GuardedWanted(f1, p, 2) THEN Remove(f1, 2, ok[2]) ELSE f1

\* os.remove(tmp_path1); os.remove(tmp_path2) without the exists() guard
PlainRaises(f, ok) == RemoveRaises(f, 1, ok[1]) \/ RemoveRaises(f, 2, ok[2])
PlainRemove(f, ok) ==
    IF RemoveRaises(f, 1, ok[1]) THEN f ELSE Remove(Remove(f, 1, ok[1]), 2, ok[2])

RemoveOutcomes == [Files -> BOOLEAN]

Return(r) == /\ response' = r
             /\ pc' = "done"

\* ----------------------------------------------------------- get_embeddings
\* body = await request.json(); if 'file1' in body and 'file2' in body
G_Parse ==
    /\ handler = GE /\ pc = "g_parse"
    /\ CASE request.body \in {"json_error", "not_container"} ->
              pc' = "g_exc230" /\ UNCHANGED response
         [] request.body = "missing_keys" ->
              Return(Resp(400, "Invalid payload format - expected 'file1' and 'file2' with 'data' field", {"error"}))
         [] request.body = "no_data" ->
              pc' = "g_exc213" /\ UNCHANGED response
         [] OTHER ->
              pc' = "g_validate1" /\ UNCHANGED response
    /\ UNCHANGED <<handler, request, calls, fs, tmp_path, verification_result,
                   detection_method, emb_check, embedding, cleanupCalls>>

\* file1_data, file1_ext = validate_and_process_base64_image(body['file1']['data'])
G_Validate1 ==
    /\ handler = GE /\ pc = "g_validate1"
    /\ pc' = IF ValidateRaises(request.data[1]) THEN "g_exc213" ELSE "g_validate2"
    /\ UNCHANGED <<handler, request, calls, fs, tmp_path, verification_result,
                   detection_method, emb_check, embedding, cleanupCalls, response>>

\* file2_data, file2_ext = validate_and_process_base64_image(body['file2']['data'])
G_Validate2 ==
    /\ handler = GE /\ pc = "g_validate2"
    /\ pc' = IF ValidateRaises(request.data[2]) THEN "g_exc213" ELSE "g_tmp1"
    /\ UNCHANGED <<handler, request, calls, fs, tmp_path, verification_result,
                   detection_method, emb_check, embedding, cleanupCalls, response>>

\* with tempfile.NamedTemporaryFile(delete=False, ...) as tmp: write, flush,
\* tmp_path = tmp.name.  The file is on disk once created (delete=False); the
\* path is assigned only after write and flush returned.
TmpOutcomes == {"create_fails", "write_fails", "close_fails", "ok"}
TmpCreates(o) == o /= "create_fails"
TmpAssigns(o) == o \in {"close_fails", "ok"}
TmpRaises(o) == o /= "ok"

G_Tmp(i, here, next) ==
    /\ handler = GE /\ pc = here
    /\ \E o \in TmpOutcomes :
         /\ fs' = IF TmpCreates(o) THEN [fs EXCEPT ![i] = "present"] ELSE fs
         /\ tmp_path' = IF TmpAssigns(o) THEN [tmp_path EXCEPT ![i] = TRUE] ELSE tmp_path
         /\ pc' = IF TmpRaises(o) THEN "g_exc199" ELSE next
    /\ UNCHANGED <<handler, request, calls, verification_result,
                   detection_method, emb_check, embedding, cleanupCalls, response>>

G_Tmp1 == G_Tmp(1, "g_tmp1", "g_tmp2")
G_Tmp2 == G_Tmp(2, "g_tmp2", "g_sizecheck")

\* Mutant: the pre-check is skipped, verify comes right after the files
G_SizeCheck_SkipPrecheck ==
    /\ handler = GE /\ pc = "g_sizecheck"
    /\ pc' = IF fs[1] /= "present" \/ fs[2] /= "present" THEN "g_exc199" ELSE "g_verify"
    /\ UNCHANGED <<handler, request, calls, fs, tmp_path, verification_result,
                   detection_method, emb_check, embedding, cleanupCalls, response>>

\* if not os.path.exists(tmp_pathN) or os.path.getsize(tmp_pathN) == 0: raise
G_SizeCheck ==
    /\ handler = GE /\ pc = "g_sizecheck"
    /\ pc' = IF fs[1] /= "present" \/ fs[2] /= "present" THEN "g_exc199" ELSE "g_precheck1"
    /\ UNCHANGED <<handler, request, calls, fs, tmp_path, verification_result,
                   detection_method, emb_check, embedding, cleanupCalls, response>>

\* emb1_check = DeepFace.represent(tmp_path1, detector_backend="mtcnn")
G_Precheck1 ==
    /\ handler = GE /\ pc = "g_precheck1"
    /\ \E r \in RepresentOutcomes :
         /\ calls' = Append(calls, Call("represent", MTCNN, {1}, "precheck", r.kind))
         /\ emb_check' = [emb_check EXCEPT ![1] = r.kind]
         /\ pc' = IF r.kind = "raise" THEN "g_precheck_exc" ELSE "g_precheck2"
    /\ UNCHANGED <<handler, request, fs, tmp_path, verification_result,
                   detection_method, embedding, cleanupCalls, response>>

\* emb2_check = DeepFace.represent(tmp_path2, ...), then the tests of
\* emb1_check and emb2_check
G_Precheck2 ==
    /\ handler = GE /\ pc = "g_precheck2"
    /\ \E r \in RepresentOutcomes :
         /\ calls' = Append(calls, Call("represent", MTCNN, {2}, "precheck", r.kind))
         /\ emb_check' = [emb_check EXCEPT ![2] = r.kind]
         /\ pc' = IF \/ r.kind = "raise"
                     \/ PrecheckRaises([kind |-> emb_check[1]])
                     \/ PrecheckRaises(r)
                  THEN "g_precheck_exc" ELSE "g_verify"
    /\ UNCHANGED <<handler, request, fs, tmp_path, verification_result,
                   detection_method, embedding, cleanupCalls, response>>

\* An except block that removes both files under the exists() guard and
\* returns 400; an os.remove that raises there reaches the enclosing except
\* of line 199.
G_CleanupReturn(here, error) ==
    /\ handler = GE /\ pc = here
    /\ \E ok \in RemoveOutcomes :
         /\ fs' = GuardedRemove(fs, tmp_path, ok)
         /\ IF GuardedRaises(fs, tmp_path, ok)
              THEN pc' = "g_exc199" /\ UNCHANGED response
              ELSE Return(Resp(400, error, ErrDetails))
    /\ UNCHANGED <<handler, request, calls, tmp_path, verification_result,
                   detection_method, emb_check, embedding, cleanupCalls>>

\* except Exception as precheck_exc
G_PrecheckExc ==
    G_CleanupReturn("g_precheck_exc",
                    "Face not detected in one or both images during pre-check.")

\* verification_result = DeepFace.verify(tmp_path1, tmp_path2, "mtcnn")
G_Verify ==
    /\ handler = GE /\ pc = "g_verify"
    /\ \E r \in VerifyOutcomes :
         /\ calls' = Append(calls, Call("verify", MTCNN, {1, 2}, "verify", VerifyOutcomeName(r)))
         /\ IF r.kind = "raise"
              THEN pc' = "g_verify_exc" /\ UNCHANGED verification_result
              ELSE pc' = "g_check_verified" /\ verification_result' = r
    /\ UNCHANGED <<handler, request, fs, tmp_path, detection_method, emb_check,
                   embedding, cleanupCalls, response>>

\* except Exception as verify_error (the inner one)
G_VerifyExc == G_CleanupReturn("g_verify_exc", "Face verification failed")

\* if not verification_result["verified"]: remove both files, return 400
G_CheckVerified ==
    /\ handler = GE /\ pc = "g_check_verified"
    /\ IF verification_result.kind /= "dict"
         THEN pc' = "g_exc199" /\ UNCHANGED <<fs, response>>
         ELSE IF verification_result.verified
         THEN pc' = "g_embed_m1" /\ UNCHANGED <<fs, response>>
         ELSE \E ok \in RemoveOutcomes :
                /\ fs' = PlainRemove(fs, ok)
                /\ IF PlainRaises(fs, ok)
                     THEN pc' = "g_exc199" /\ UNCHANGED response
                     ELSE Return([Resp(400, "The faces belong to different people",
                                       {"error", "distance", "threshold"})
                                  EXCEPT !.distance = {verification_result.distance},
                                         !.threshold = {verification_result.threshold}])
    /\ UNCHANGED <<handler, request, calls, tmp_path, verification_result,
                   detection_method, emb_check, embedding, cleanupCalls>>

\* embeddingN = DeepFace.represent(tmp_pathN, detector_backend=backend)[0]["embedding"]
G_Embed(backend, i, here, next, handlerPc) ==
    /\ handler = GE /\ pc = here
    /\ \E r \in RepresentOutcomes :
         /\ calls' = Append(calls, Call("represent", backend, {i}, "embed", r.kind))
         /\ IF r.kind = "raise" \/ IndexRaises(r)
              THEN pc' = handlerPc /\ UNCHANGED embedding
              ELSE pc' = next /\ embedding' = [embedding EXCEPT ![i] = r.emb]
    /\ UNCHANGED <<handler, request, fs, tmp_path, verification_result,
                   detection_method, emb_check, cleanupCalls, response>>

G_EmbedMtcnn1 == G_Embed(MTCNN, 1, "g_embed_m1", "g_embed_m2", "g_embed_r1")
G_EmbedMtcnn2 == G_Embed(MTCNN, 2, "g_embed_m2", "g_normalize", "g_embed_r1")
G_EmbedRetina1 == G_Embed(FallbackBackend, 1, "g_embed_r1", "g_embed_r2", "g_retina_exc")
G_EmbedRetina2 == G_Embed(FallbackBackend, 2, "g_embed_r2", "g_normalize", "g_retina_exc")

\* except Exception as retinaface_exc
G_RetinaExc == G_CleanupReturn("g_retina_exc", "Face embedding failed (RetinaFace fallback)")

\* norm_emb = emb / np.linalg.norm(emb); remove both files; return 200
G_Normalize ==
    /\ handler = GE /\ pc = "g_normalize"
    /\ \E ok \in RemoveOutcomes :
         /\ fs' = PlainRemove(fs, ok)
         /\ IF PlainRaises(fs, ok)
              THEN pc' = "g_exc199" /\ UNCHANGED response
              ELSE Return([Resp(200, "", {"embedding1", "embedding2"})
                           EXCEPT !.embedding1 = Divide(embedding[1]),
                                  !.embedding2 = Divide(embedding[2])])
    /\ UNCHANGED <<handler, request, calls, tmp_path, verification_result,
                   detection_method, emb_check, embedding, cleanupCalls>>

\* except Exception as verify_error (line 199): guarded removal, return 400;
\* an os.remove that raises here reaches the except of line 213
G_Exc199 ==
    /\ handler = GE /\ pc = "g_exc199"
    /\ \E ok \in RemoveOutcomes :
         /\ fs' = GuardedRemove(fs, tmp_path, ok)
         /\ IF GuardedRaises(fs, tmp_path, ok)
              THEN pc' = "g_exc213" /\ UNCHANGED response
              ELSE Return(Resp(400, "Face verification failed", ErrDetails))
    /\ UNCHANGED <<handler, request, calls, tmp_path, verification_result,
                   detection_method, emb_check, embedding, cleanupCalls>>

\* except Exception as decode_error
G_Exc213 ==
    /\ handler = GE /\ pc = "g_exc213"
    /\ Return(Resp(400, "Invalid base64 data", ErrDetails))
    /\ UNCHANGED <<handler, request, calls, fs, tmp_path, verification_result,
                   detection_method, emb_check, embedding, cleanupCalls>>

\* except Exception as e (outermost)
G_Exc230 ==
    /\ handler = GE /\ pc = "g_exc230"
    /\ Return(Resp(500, "str(e)", {"error"}))
    /\ UNCHANGED <<handler, request, calls, fs, tmp_path, verification_result,
                   detection_method, emb_check, embedding, cleanupCalls>>

\* ----------------------------------------------------------- lambda_handler
\* cleanup_tmp_images(): removes /tmp/*.jpg, *.jpeg, *.png; swallows every
\* exception, so it never raises
cleanup_tmp_images == cleanupCalls' = cleanupCalls + 1

\* print(f"... {context.get_remaining_time_in_millis()}ms remaining"), the
\* statement before the try
L_Start ==
    /\ handler = LH /\ pc = "l_start"
    /\ IF request.context = "raises"
         THEN response' = Raised /\ pc' = "done"
         ELSE pc' = "l_parse" /\ UNCHANGED response
    /\ UNCHANGED <<handler, request, calls, fs, tmp_path, verification_result,
                   detection_method, emb_check, embedding, cleanupCalls>>

\* url1 = event.get('url1') ... if url1 is None or url2 is None: return 400
L_Parse ==
    /\ handler = LH /\ pc = "l_parse"
    /\ CASE request.event = "not_dict" ->
              pc' = "l_exc" /\ UNCHANGED response
         [] request.event = "dict" /\ (request.url[1] = "None" \/ request.url[2] = "None") ->
              Return(Resp(400, "Missing 'url1' or 'url2' in request", {"error"}))
         [] OTHER ->
              /\ pc' = IF DoVerify(request.do_verify) THEN "l_verify_m" ELSE "l_embed1"
              /\ UNCHANGED response
    /\ UNCHANGED <<handler, request, calls, fs, tmp_path, verification_result,
                   detection_method, emb_check, embedding, cleanupCalls>>

\* try: verification_result = DeepFace.verify(url1, url2, "mtcnn");
\* detection_method = "mtcnn"
L_VerifyMtcnn ==
    /\ handler = LH /\ pc = "l_verify_m"
    /\ \E r \in VerifyOutcomes :
         /\ calls' = Append(calls, Call("verify", MTCNN, {1, 2}, "verify", VerifyOutcomeName(r)))
         /\ IF r.kind = "raise"
              THEN pc' = "l_verify_r" /\ UNCHANGED <<verification_result, detection_method>>
              ELSE /\ verification_result' = r
                   /\ detection_method' = MTCNN
                   /\ pc' = "l_check_verified"
    /\ UNCHANGED <<handler, request, fs, tmp_path, emb_check, embedding,
                   cleanupCalls, response>>

\* except Exception as mtcnn_exc: the same with "retinaface"; when that raises
\* too, return 400
L_VerifyRetina ==
    /\ handler = LH /\ pc = "l_verify_r"
    /\ \E r \in VerifyOutcomes :
         /\ calls' = Append(calls, Call("verify", FallbackBackend, {1, 2}, "verify", VerifyOutcomeName(r)))
         /\ IF r.kind = "raise"
              THEN /\ Return(Resp(400, "Face verification failed with both MTCNN and RetinaFace", ErrDetails))
                   /\ UNCHANGED <<verification_result, detection_method>>
              ELSE /\ verification_result' = r
                   /\ detection_method' = FallbackBackend
                   /\ pc' = "l_check_verified" /\ UNCHANGED response
    /\ UNCHANGED <<handler, request, fs, tmp_path, emb_check, embedding, cleanupCalls>>

\* if not verification_result["verified"]: return 400
L_CheckVerified ==
    /\ handler = LH /\ pc = "l_check_verified"
    /\ IF verification_result.kind /= "dict"
         THEN pc' = "l_exc" /\ UNCHANGED response
         ELSE IF verification_result.verified
         THEN pc' = "l_embed1" /\ UNCHANGED response
         ELSE Return(Resp(400, "The faces belong to different people", {"error"}))
    /\ UNCHANGED <<handler, request, calls, fs, tmp_path, verification_result,
                   detection_method, emb_check, embedding, cleanupCalls>>

\* embeddingN = get_embedding(urlN, embedding_detector): represent, then
\* extract_embedding; whatever raises is re-raised as "No face found in image"
L_Embed(i, here, next) ==
    /\ handler = LH /\ pc = here
    /\ \E r \in RepresentOutcomes :
         /\ calls' = Append(calls, Call("represent", EmbeddingDetector(detection_method),
                                        {i}, "embed", r.kind))
         /\ IF r.kind = "raise" \/ ExtractRaises(r)
              THEN pc' = "l_exc" /\ UNCHANGED embedding
              ELSE pc' = next /\ embedding' = [embedding EXCEPT ![i] = extract_embedding(r)]
    /\ UNCHANGED <<handler, request, fs, tmp_path, verification_result,
                   detection_method, emb_check, cleanupCalls, response>>

L_Embed1 == L_Embed(1, "l_embed1", "l_embed2")
L_Embed2 == L_Embed(2, "l_embed2", "l_normalize")

\* norm_emb = normalize_embedding(embedding); cleanup_tmp_images(); return 200
L_Normalize ==
    /\ handler = LH /\ pc = "l_normalize"
    /\ IF NormalizeRaises(embedding[1]) \/ NormalizeRaises(embedding[2])
         THEN pc' = "l_exc" /\ UNCHANGED <<response, cleanupCalls>>
         ELSE /\ cleanup_tmp_images
              /\ Return([Resp(200, "", {"embedding1", "embedding2"})
                         EXCEPT !.embedding1 = normalize_embedding(embedding[1]),
                                !.embedding2 = normalize_embedding(embedding[2])])
    /\ UNCHANGED <<handler, request, calls, fs, tmp_path, verification_result,
                   detection_method, emb_check, embedding>>

\* except Exception as e: cleanup_tmp_images(); return 500
L_Exc ==
    /\ handler = LH /\ pc = "l_exc"
    /\ cleanup_tmp_images
    /\ Return(Resp(500, "str(e)", {"error"}))
    /\ UNCHANGED <<handler, request, calls, fs, tmp_path, verification_result,
                   detection_method, emb_check, embedding>>

Next ==
    \/ G_Parse \/ G_Validate1 \/ G_Validate2 \/ G_Tmp1 \/ G_Tmp2 \/ G_SizeCheck
    \/ G_Precheck1 \/ G_Precheck2 \/ G_PrecheckExc \/ G_Verify \/ G_VerifyExc
    \/ G_CheckVerified \/ G_EmbedMtcnn1 \/ G_EmbedMtcnn2 \/ G_EmbedRetina1
    \/ G_EmbedRetina2 \/ G_RetinaExc \/ G_Normalize \/ G_Exc199 \/ G_Exc213
    \/ G_Exc230
    \/ L_Start \/ L_Parse \/ L_VerifyMtcnn \/ L_VerifyRetina \/ L_CheckVerified
    \/ L_Embed1 \/ L_Embed2 \/ L_Normalize \/ L_Exc

Spec == Init /\ [][Next]_vars

\* =================================================================== claims
Idx == 1..Len(calls)
Done == pc = "done"
Returned == Done /\ response.kind = "return"
CallsOf(op) == {i \in Idx : calls[i].op = op}
Truthy == {"absent", "true"}
BadData == {"bad_base64", "not_image"}

\* C1: whatever the request and the outcomes of the calls, both handlers end
\* by returning a response with statusCode 200, 400 or 500 and a JSON body;
\* no exception leaves a handler.
C1_EveryOutcomeIsAResponse ==
    Done => /\ response.kind = "return"
            /\ response.statusCode \in {200, 400, 500}
            /\ response.keys /= {}

\* C2: in both handlers, once a verify call returned verified = false the
\* handler returns 400 and the body carries that result's distance and
\* threshold.
C2_MismatchCarriesDistance ==
    (Done /\ \E i \in Idx : calls[i].op = "verify" /\ calls[i].outcome = "false")
    => /\ response.kind = "return"
       /\ response.statusCode = 400
       /\ {"distance", "threshold"} \subseteq response.keys
       /\ response.distance = {verification_result.distance}
       /\ response.threshold = {verification_result.threshold}

\* C3: in both handlers a 200 response is returned only when both raw
\* embeddings have a non-zero norm, and then both vectors are unit-norm (never
\* NaN).
C3_OkOnlyWithUnitNorm ==
    (Returned /\ response.statusCode = 200)
    => /\ NormSq(embedding[1]) /= 0
       /\ NormSq(embedding[2]) /= 0
       /\ IsUnitNorm(response.embedding1)
       /\ IsUnitNorm(response.embedding2)

\* ---- C4
InputDecoded ==
    IF handler = GE
    THEN request.body = "files" /\ \A f \in Files : request.data[f] = "image"
    ELSE request.event = "dict" /\ \A f \in Files : request.url[f] = "url"

\* the call at which the backend changes from MTCNN to RetinaFace
IsFallbackPoint(j) ==
    j > 1 /\ calls[j].backend = "retinaface" /\ calls[j - 1].backend = "mtcnn"

\* C4 (as claimed): in both handlers no represent call is made before a verify
\* call of the same request, and the detector fallback happens at the
\* represent step.
C4_RepresentOnlyAfterVerify ==
    /\ \A i, j \in Idx : i < j => ~(calls[i].op = "represent" /\ calls[j].op = "verify")
    /\ \A j \in Idx : IsFallbackPoint(j) => calls[j].op = "represent"

\* C4 (amended): library calls are made only once the input is decoded; no
\* verify call follows an embedding represent call; the only represent calls
\* before verify are the two MTCNN pre-check calls of get_embeddings, which
\* precede its verify call, which in turn precedes its embedding represent
\* calls; the fallback happens at the represent step in get_embeddings and at
\* the verify step in lambda_handler.
C4_CallOrder ==
    /\ Len(calls) > 0 => InputDecoded
    /\ \A i, j \in Idx :
         (i < j /\ calls[j].op = "verify")
         => (calls[i].op = "verify" \/ (handler = GE /\ calls[i].phase = "precheck"))
    /\ \A i \in Idx : calls[i].phase = "precheck"
         => handler = GE /\ calls[i].op = "represent" /\ calls[i].backend = "mtcnn" /\ i <= 2
    /\ handler = GE =>
         /\ \A j \in Idx : calls[j].op = "verify"
              => /\ j = 3
                 /\ calls[1].phase = "precheck" /\ calls[1].imgs = {1}
                 /\ calls[2].phase = "precheck" /\ calls[2].imgs = {2}
         /\ \A j \in Idx : calls[j].phase = "embed"
              => \E i \in Idx : i < j /\ calls[i].op = "verify"
    /\ \A j \in Idx : IsFallbackPoint(j)
         => calls[j].op = (IF handler = GE THEN "represent" ELSE "verify")

C4_Witness ==
    /\ handler = GE /\ Returned /\ response.statusCode = 200
    /\ Len(calls) = 5
    /\ calls[2].phase = "precheck" /\ calls[3].op = "verify" /\ calls[5].phase = "embed"

\* C5: in lambda_handler with do_verify truthy (or absent) every represent call
\* follows a verify call that returned verified = true; when verify returned
\* verified = false, or raised with MTCNN and with RetinaFace, the handler
\* returns 400 and made no represent call; with do_verify falsy there is no
\* verify call.
C5_VerificationFirst ==
    handler = LH =>
      /\ request.do_verify \in Truthy =>
           \A j \in CallsOf("represent") :
              \E i \in CallsOf("verify") : i < j /\ calls[i].outcome = "true"
      /\ request.do_verify \notin Truthy => CallsOf("verify") = {}
      /\ ( /\ Done
           /\ request.do_verify \in Truthy
           /\ \/ \E i \in CallsOf("verify") : calls[i].outcome = "false"
              \/ /\ Cardinality(CallsOf("verify")) = 2
                 /\ \A i \in CallsOf("verify") : calls[i].outcome = "raise" )
         => /\ response.kind = "return"
            /\ response.statusCode = 400
            /\ CallsOf("represent") = {}

C5_Witness ==
    /\ handler = LH /\ Returned /\ response.statusCode = 200
    /\ request.do_verify = "absent"
    /\ \E i \in CallsOf("verify") : calls[i].outcome = "true"
    /\ Cardinality(CallsOf("represent")) = 2

\* ---- C6
NoMtcnnAfterRetina ==
    \A i, j \in Idx : i < j => ~(calls[i].backend = "retinaface" /\ calls[j].backend = "mtcnn")

NoRepeatedAttempt ==
    \A i, j \in Idx :
       (i /= j /\ calls[i].op = calls[j].op /\ calls[i].imgs = calls[j].imgs
               /\ calls[i].phase = calls[j].phase)
       => calls[i].backend /= calls[j].backend

\* C6 (as claimed): a RetinaFace call is made only after an MTCNN call of the
\* same library operation raised; no MTCNN call follows a RetinaFace call; no
\* operation is attempted twice on the same image(s) with the same backend in
\* the same phase.
C6_FallbackAfterSameOpRaised ==
    /\ \A j \in Idx : calls[j].backend = "retinaface"
         => \E i \in Idx : /\ i < j
                           /\ calls[i].backend = "mtcnn"
                           /\ calls[i].op = calls[j].op
                           /\ calls[i].outcome = "raise"
    /\ NoMtcnnAfterRetina
    /\ NoRepeatedAttempt

\* an MTCNN attempt the handler gave up on: in get_embeddings an embedding
\* represent call that raised or whose result[0]["embedding"] raised, in
\* lambda_handler a verify call that raised
FailedMtcnnAttempt(i) ==
    /\ calls[i].backend = "mtcnn"
    /\ IF handler = GE
       THEN calls[i].phase = "embed" /\ calls[i].outcome \in {"raise", "empty", "floats"}
       ELSE calls[i].op = "verify" /\ calls[i].outcome = "raise"

\* C6 (amended): a RetinaFace call is made only after an MTCNN attempt failed
\* earlier in the request: in get_embeddings an embedding represent attempt
\* (the call raised or its result could not be indexed), in lambda_handler the
\* verify attempt, also for the RetinaFace represent calls; there is a single
\* change of backend, no MTCNN call follows a RetinaFace call, and no operation
\* is attempted twice on the same image(s) with the same backend in the same
\* phase.
C6_SingleFallback ==
    /\ \A j \in Idx : calls[j].backend = "retinaface"
         => /\ \E i \in Idx : i < j /\ FailedMtcnnAttempt(i)
            /\ handler = GE => calls[j].phase = "embed"
    /\ NoMtcnnAfterRetina
    /\ NoRepeatedAttempt
    /\ \A i \in Idx : calls[i].backend \in {"mtcnn", "retinaface"}

C6_Witness ==
    /\ handler = GE /\ Returned /\ response.statusCode = 200
    /\ \E i, j \in Idx : /\ i < j
                         /\ calls[i].backend = "mtcnn" /\ calls[i].phase = "embed"
                         /\ calls[i].outcome = "empty"
                         /\ calls[j].backend = "retinaface" /\ calls[j].imgs = {2}

\* C7: in get_embeddings, when the body has file1 and file2 and the data of
\* either fails to decode, no temporary file is ever created, no library call
\* is ever made, and the response is 400 "Invalid base64 data".
C7_BadBase64 ==
    ( /\ handler = GE
      /\ request.body = "files"
      /\ \E f \in Files : request.data[f] \in BadData )
    => /\ calls = <<>>
       /\ \A f \in Files : fs[f] = "absent" /\ ~tmp_path[f]
       /\ Done => /\ response.kind = "return"
                  /\ response.statusCode = 400
                  /\ response.error = "Invalid base64 data"

C7_Witness ==
    /\ handler = GE /\ Returned
    /\ request.body = "files"
    /\ request.data[1] = "image" /\ request.data[2] = "not_image"
    /\ response.statusCode = 400 /\ response.error = "Invalid base64 data"

\* C8: in lambda_handler every represent call uses the backend of the verify
\* call that returned verified = true, and mtcnn when no verify call was made;
\* all represent calls of a request use one backend.
C8_EmbeddingBackend ==
    handler = LH =>
      /\ \A j \in CallsOf("represent") :
           /\ \A i \in CallsOf("verify") :
                calls[i].outcome = "true" => calls[j].backend = calls[i].backend
           /\ CallsOf("verify") = {} => calls[j].backend = "mtcnn"
      /\ \A i, j \in CallsOf("represent") : calls[i].backend = calls[j].backend

C8_Witness ==
    /\ handler = LH /\ Returned /\ response.statusCode = 200
    /\ \E i \in CallsOf("verify") : calls[i].backend = "retinaface" /\ calls[i].outcome = "true"
    /\ \A j \in CallsOf("represent") : calls[j].backend = "retinaface"
    /\ Cardinality(CallsOf("represent")) = 2

\* C9: every return of lambda_handler that follows at least one library call
\* is preceded by a call of cleanup_tmp_images.
C9_CleanupBeforeEveryReturn ==
    (handler = LH /\ Returned /\ Len(calls) > 0) => cleanupCalls > 0

\* C10: when get_embeddings returns, every temporary file the request created
\* has been removed.
C10_NoTempFileLeft ==
    (handler = GE /\ Done) => \A f \in Files : fs[f] = "absent"

====
